---- MODULE Spec2Model ----
(***************************************************************************)
(* A model of the alert-subscriber crate: a tracing Layer (AlertLayer)     *)
(* that classifies events, deduplicates alerts through a TTL cache and     *)
(* hands the admitted ones to a single worker task (handle_alert_future)   *)
(* which calls AlertHandler::handle_alert and purges the cache on a timer. *)
(*                                                                         *)
(* Time is a discrete clock `now`; one unit is one purge period            *)
(* (DEDUP_TIME, 60 s).  Several steps may happen at the same clock value,  *)
(* as two reads of Instant::now() may return the same instant.             *)
(***************************************************************************)
EXTENDS Integers, Sequences, FiniteSets, TLC

(* ------------------------------ bounds --------------------------------- *)
\* number of concurrent emitting contexts (threads calling on_event)
NumEmitters == 2
\* the clock stops advancing at MaxTime
MaxTime == 2
\* total number of on_event calls explored
MaxEvents == 3
\* number of on_event calls explored where liveness is checked or the
\* events differ in more of their fields
FewEvents == 2
\* largest number of fields of an event where event.record is checked alone
MaxFields == 3
\* dedup_time handed to AlertLayer::new, in clock units
TTL == 1
\* largest buffer handed to AlertLayer::new (capacity of the mpsc channel)
MaxBuffer == 2

(* ------------------------- program constants --------------------------- *)
\* const DEDUP_TIME: the period of the purge timer (the unit of the clock)
DEDUP_TIME == 1

\* tracing::Level, ordered as tracing orders it: ERROR < WARN < INFO < DEBUG < TRACE
ERROR == 1
WARN == 2
INFO == 3
DEBUG == 4
TRACE == 5
Levels == {ERROR, WARN, INFO, DEBUG, TRACE}
\* max_level handed to AlertLayer::new (seal_layer and the test use Level::WARN)
MaxLevel == WARN

Emitters == 1..NumEmitters
\* the owners of the cache lock
None == <<"none">>
Worker == <<"worker">>
Emitter(e) == <<"emitter", e>>

(* --------------------------- visitor.rs -------------------------------- *)
\* A field of an event: its name, the Visit method tracing calls for it
\* ("bool" -> record_bool, "str" -> record_str, "args" -> record_debug of a
\* fmt::Arguments, which is how the message of an event macro arrives) and
\* its value.
Field(n, k, v) == [name |-> n, kind |-> k, val |-> v]

\* bool::to_string
BoolToString(b) == IF b THEN "true" ELSE "false"

\* format!("{:?}", value) for a fmt::Arguments: the formatted text itself
DebugFmt(v) == v

\* AlertVisitor::new
NewVisitor(level) == [level |-> level, is_alert |-> FALSE, string_fields |-> <<>>]

\* HashMap::insert on string_fields: the map is a function from the names present
MapInsert(m, k, v) == [x \in (DOMAIN m) \cup {k} |-> IF x = k THEN v ELSE m[x]]

\* an insert that keeps the value a name already has
InsertKeepingFirst(vis, key, value) ==
    IF key \in DOMAIN vis.string_fields THEN vis
    ELSE [vis EXCEPT !.string_fields = MapInsert(@, key, value)]

\* AlertVisitor::insert
Insert(vis, key, value) == [vis EXCEPT !.string_fields = MapInsert(@, key, value)]

\* impl Visit for AlertVisitor: record_bool, record_str, record_debug
RecordBool(vis, f) ==
    LET v1 == IF f.name = "alert" THEN [vis EXCEPT !.is_alert = f.val] ELSE vis
    IN  Insert(v1, f.name, BoolToString(f.val))

RecordStr(vis, f) == Insert(vis, f.name, f.val)

RecordDebug(vis, f) == Insert(vis, f.name, DebugFmt(f.val))

\* format!("{:?}", value) for an i64: its decimal digits
I64Fmt(n) == CASE n = 0 -> "0" [] n = 1 -> "1" [] OTHER -> "-1"

\* record_i64 is not overridden: the default of Visit hands the value to
\* record_debug, which stores format!("{:?}", value)
RecordI64(vis, f) == Insert(vis, f.name, I64Fmt(f.val))

RecordField(vis, f) ==
    CASE f.kind = "bool" -> RecordBool(vis, f)
      [] f.kind = "str"  -> RecordStr(vis, f)
      [] f.kind = "i64"  -> RecordI64(vis, f)
      [] OTHER           -> RecordDebug(vis, f)

\* event.record(&mut visitor): the fields are visited in order
RECURSIVE RecordAll(_, _)
RecordAll(vis, fields) ==
    IF fields = <<>> THEN vis
    ELSE RecordAll(RecordField(vis, Head(fields)), Tail(fields))

\* is_alert that looks at the flag alone
IsAlertFlagOnly(vis) == vis.is_alert

\* AlertVisitor::is_alert
IsAlert(vis) == vis.is_alert \/ "alert" \in DOMAIN vis.string_fields

\* a message that is empty when the event has no `message` field
MessageOrEmpty(vis) ==
    IF "message" \in DOMAIN vis.string_fields
    THEN vis.string_fields["message"]
    ELSE ""

\* AlertVisitor::message
Message(vis) ==
    IF "message" \in DOMAIN vis.string_fields
    THEN vis.string_fields["message"]
    ELSE "alert missing message"

\* Sha256 of the raw key: collision-free on the strings of the model
Sha256(s) == <<"sha256", s>>

\* a dedup_key that hashes the message whatever the fields
DedupKeyOfMessage(vis) == Sha256(Message(vis))

\* AlertVisitor::dedup_key
DedupKey(vis) ==
    LET raw_key == IF "dedup_key" \in DOMAIN vis.string_fields
                   THEN vis.string_fields["dedup_key"]
                   ELSE Message(vis)
    IN  Sha256(raw_key)

(* ------------------------- the events emitted -------------------------- *)
Event(level, fields) == [level |-> level, fields |-> fields]

\* tracing::error!(alert = true, "a") and the like: the message of the macro
\* arrives as the field `message`, visited before the named fields
AlertA == << Field("message", "args", "a"), Field("alert", "bool", TRUE) >>
AlertB == << Field("message", "args", "b"), Field("alert", "bool", TRUE) >>
PlainA == << Field("message", "args", "a") >>

Events ==
    { Event(ERROR, AlertA), Event(WARN, AlertB), Event(ERROR, PlainA),
      Event(INFO, AlertA), Event(DEBUG, AlertB), Event(TRACE, AlertA) }

\* tracing::error!(alert = true, dedup_key = "k1", "a") and the like
KeyA1 == << Field("message", "args", "a"), Field("alert", "bool", TRUE),
            Field("dedup_key", "str", "k1") >>
KeyB1 == << Field("message", "args", "b"), Field("alert", "bool", TRUE),
            Field("dedup_key", "str", "k1") >>
KeyA2 == << Field("message", "args", "a"), Field("alert", "bool", TRUE),
            Field("dedup_key", "str", "k2") >>

\* tracing::warn!(alert = true): an alert without a message
AlertNoMessage == << Field("alert", "bool", TRUE) >>

LiveEvents == { Event(ERROR, AlertA), Event(WARN, AlertNoMessage) }

\* events whose `alert` field is false, a string or an integer, and events
\* without one (one of them with another boolean field)
AlertFalse == << Field("message", "args", "a"), Field("alert", "bool", FALSE) >>
AlertStr == << Field("message", "args", "b"), Field("alert", "str", "yes") >>
AlertI64 == << Field("alert", "i64", 1) >>
PlainUrgent == << Field("message", "args", "b"), Field("urgent", "bool", TRUE) >>

FieldEvents ==
    { Event(ERROR, AlertA), Event(ERROR, AlertFalse), Event(WARN, AlertStr),
      Event(ERROR, AlertI64), Event(ERROR, PlainA), Event(WARN, PlainUrgent),
      Event(INFO, AlertStr) }

KeyEvents ==
    { Event(ERROR, KeyA1), Event(ERROR, KeyB1), Event(ERROR, KeyA2),
      Event(ERROR, AlertA) }

(* ------------------------------ state ---------------------------------- *)
VARIABLES
    buffer,     \* the buffer given to AlertLayer::new: the channel's capacity
    now,        \* the clock read by Instant::now()
    dedup,      \* the cache: a set of <<key, expires_at>> entries
    lock,       \* owner of the parking_lot::Mutex around the cache
    pc,         \* per emitter: where its on_event call is
    vis,        \* per emitter: the visitor of its on_event call
    nEvents,    \* number of on_event calls made so far
    nFiltered,  \* history: number of on_event calls ended by the level filter
    suppressed, \* history: <<key, time>> of the alerts the dedup match ended
    nextId,     \* number of records admitted so far (names the records)
    senders,    \* spawned tasks that have not yet completed tx.send(visitor)
    waited,     \* ids of the records whose send found the channel full
    queue,      \* the mpsc channel handler_tx -> handler_rx
    enq,        \* history: ids in the order they entered the channel
    wpc,        \* where the worker (handle_alert_future) is
    nextTick,   \* deadline of the next interval.tick()
    inflight,   \* records whose handle_alert call has not returned
    delivered,  \* history: handle_alert calls started, with their time
    errs,       \* history: ids of the records whose handle_alert returned Err
    handler_tx, \* the sender owned by the AlertLayer: "held" or "dropped"
    input       \* the field lists of the specification of event.record alone

vars == << buffer, now, dedup, lock, pc, vis, nEvents, nFiltered, suppressed,
           nextId, senders, waited, queue, enq, wpc, nextTick, inflight,
           delivered, errs, handler_tx, input >>

NoVisitor == NewVisitor(0)

(* ------------------------------ lib.rs --------------------------------- *)
\* BTreeMap::entry(key): the entries stored under key
EntryOf(cache, key) == {p \in cache : p[1] = key}

\* Entry::insert: the expiry stored under key is replaced
CacheInsert(cache, key, expires_at) ==
    {p \in cache : p[1] # key} \cup {<<key, expires_at>>}

\* the comparison of the Occupied arm with >= for >
ExpiredAtExpiry(t, expires_at) == t >= expires_at

\* the comparison of the Occupied arm: `&now > entry.get()`
Expired(t, expires_at) == t > expires_at

\* the dedup match of on_event: TRUE iff the event goes on to the handler
Admits(cache, key, t) ==
    \/ EntryOf(cache, key) = {}
    \/ \E p \in EntryOf(cache, key) : Expired(t, p[2])

\* a dedup match that admits without storing an entry
AfterAdmitWithoutInsert(cache, key, t) == cache

\* the dedup match refreshing the expiry of a suppressed alert as well
AfterAdmitRefreshing(cache, key, t) == CacheInsert(cache, key, t + TTL)

\* the cache after the dedup match of on_event
AfterAdmit(cache, key, t) ==
    IF Admits(cache, key, t) THEN CacheInsert(cache, key, t + TTL) ELSE cache

\* retain with the comparison the wrong way round: the live entries go
PurgeLiveEntries(cache, t) == {p \in cache : t > p[2]}

\* retain with <= for <: an entry expiring at this instant stays
PurgeKeepingAtExpiry(cache, t) == {p \in cache : t <= p[2]}

\* AlertLayer::purge_expired_entries: cache.retain(|_, e| Instant::now() < *e)
PurgeExpiredEntries(cache, t) == {p \in cache : t < p[2]}

\* the level filter with the comparison the wrong way round
LevelFilteredBelow(level) == level < MaxLevel

\* `if level > &self.max_level { return; }`
LevelFiltered(level) == level > MaxLevel

\* a hand-off that waits in on_event for room in the channel
HandOffBlocking(r) ==
    /\ Len(queue) + Cardinality(senders) < buffer
    /\ senders' = senders \cup {r}

\* tokio::spawn of the task that sends the record: on_event does not wait
HandOff(r) == senders' = senders \cup {r}

\* a channel that puts the record sent last at its front
EnqueueFront(q, r) == <<r>> \o q

\* the channel after a completed tx.send: the record is last in it
Enqueue(q, r) == Append(q, r)

\* handler_rx.recv(): the record taken from the channel, and what is left
RecvHead(q) == Head(q)
RecvRest(q) == Tail(q)

Init ==
    /\ buffer \in 1..MaxBuffer
    /\ now = 0
    /\ dedup = {}
    /\ lock = None
    /\ pc = [e \in Emitters |-> "idle"]
    /\ vis = [e \in Emitters |-> NoVisitor]
    /\ nEvents = 0
    /\ nFiltered = 0
    /\ suppressed = {}
    /\ nextId = 0
    /\ senders = {}
    /\ waited = {}
    /\ queue = <<>>
    /\ enq = <<>>
    /\ wpc = "select"
    /\ nextTick = 0
    /\ inflight = {}
    /\ delivered = <<>>
    /\ errs = {}
    /\ handler_tx = "held"
    /\ input = <<>>

\* the clock advances
Tick ==
    /\ now < MaxTime
    /\ now' = now + 1
    /\ UNCHANGED << input, handler_tx, errs, buffer, dedup, lock, pc, vis, nEvents, nFiltered,
                    suppressed, nextId, senders, waited, queue, enq, wpc,
                    nextTick, inflight, delivered >>

\* on_event up to the lock: the level filter, event.record and is_alert
OnEvent(e, ev) ==
    /\ handler_tx = "held"
    /\ pc[e] = "idle"
    /\ nEvents < MaxEvents
    /\ nEvents' = nEvents + 1
    /\ IF LevelFiltered(ev.level)
       THEN /\ nFiltered' = nFiltered + 1
            /\ UNCHANGED << pc, vis >>
       ELSE LET visitor == RecordAll(NewVisitor(ev.level), ev.fields)
            IN  /\ IF IsAlert(visitor)
                   THEN /\ pc' = [pc EXCEPT ![e] = "lock"]
                        /\ vis' = [vis EXCEPT ![e] = visitor]
                   ELSE UNCHANGED << pc, vis >>
                /\ UNCHANGED nFiltered
    /\ UNCHANGED << input, handler_tx, errs, buffer, now, dedup, lock, suppressed, nextId, senders,
                    waited, queue, enq, wpc, nextTick, inflight, delivered >>

\* on_event: self.dedup.lock()
OnEventLock(e) ==
    /\ pc[e] = "lock"
    /\ lock = None
    /\ lock' = Emitter(e)
    /\ pc' = [pc EXCEPT ![e] = "admit"]
    /\ UNCHANGED << input, handler_tx, errs, buffer, now, dedup, vis, nEvents, nFiltered, suppressed,
                    nextId, senders, waited, queue, enq, wpc, nextTick,
                    inflight, delivered >>

\* on_event under the lock: the dedup match, tokio::spawn of the send task,
\* and the release of the guard when the function returns
OnEventAdmit(e) ==
    /\ pc[e] = "admit"
    /\ lock = Emitter(e)
    /\ LET key == DedupKey(vis[e])
       IN  /\ dedup' = AfterAdmit(dedup, key, now)
           /\ IF Admits(dedup, key, now)
              THEN /\ HandOff([id |-> nextId + 1, vis |-> vis[e], at |-> now])
                   /\ nextId' = nextId + 1
                   /\ UNCHANGED suppressed
              ELSE /\ suppressed' = suppressed \cup {<<key, now>>}
                   /\ UNCHANGED << senders, nextId >>
    /\ lock' = None
    /\ pc' = [pc EXCEPT ![e] = "idle"]
    /\ vis' = [vis EXCEPT ![e] = NoVisitor]
    /\ UNCHANGED << input, handler_tx, errs, buffer, now, nEvents, nFiltered, waited, queue, enq, wpc,
                    nextTick, inflight, delivered >>

\* the spawned task: tx.send(visitor).await.  With room in the channel the
\* record enters it; without, the task stays pending until there is room.
SendTask(r) ==
    /\ r \in senders
    /\ IF Len(queue) < buffer
       THEN /\ queue' = Enqueue(queue, r)
            /\ enq' = Append(enq, r.id)
            /\ senders' = senders \ {r}
            /\ UNCHANGED waited
       ELSE /\ r.id \notin waited
            /\ waited' = waited \cup {r.id}
            /\ UNCHANGED << queue, enq, senders >>
    /\ UNCHANGED << input, handler_tx, errs, buffer, now, dedup, lock, pc, vis, nEvents, nFiltered,
                    suppressed, nextId, wpc, nextTick, inflight, delivered >>

\* a worker that does not await the call before it takes the next record
WorkerReadyAlways == wpc \in {"select", "handling"}

\* the worker is at the select! of its loop
WorkerReady == wpc = "select"

\* select! arm `Some(visitor) = handler_rx.recv()`: handle_alert is called
WorkerRecv ==
    /\ WorkerReady
    /\ queue # <<>>
    /\ queue' = RecvRest(queue)
    /\ inflight' = inflight \cup {RecvHead(queue)}
    /\ delivered' = Append(delivered, [rec |-> RecvHead(queue), t |-> now,
                                        level |-> RecvHead(queue).vis.level,
                                        msg |-> Message(RecvHead(queue).vis)])
    /\ wpc' = "handling"
    /\ UNCHANGED << input, handler_tx, errs, buffer, now, dedup, lock, pc, vis, nEvents, nFiltered,
                    suppressed, nextId, senders, waited, enq, nextTick >>

\* the outcomes of handler.handle_alert(level, msg).await
HandlerResults == {"Ok", "Err"}

\* an Err that sends the record back to the channel for another call
AfterHandleAlertRequeue(q, r, res) == IF res = "Err" THEN Append(q, r) ELSE q

\* the channel after `if let Err(e) = ... { eprintln!(..) }`: nothing is
\* sent back, whatever the outcome
AfterHandleAlert(q, r, res) == q

\* handler.handle_alert(level, msg).await returns res: an Err is printed,
\* and the loop goes on to its next select!
HandlerReturn(r, res) ==
    /\ r \in inflight
    /\ inflight' = inflight \ {r}
    /\ errs' = IF res = "Err" THEN errs \cup {r.id} ELSE errs
    /\ queue' = AfterHandleAlert(queue, r, res)
    /\ wpc' = "select"
    /\ UNCHANGED << input, handler_tx, buffer, now, dedup, lock, pc, vis,
                    nEvents, nFiltered, suppressed, nextId, senders, waited, enq,
                    nextTick, delivered >>

\* the AlertLayer is dropped, and handler_tx with it; no on_event call is
\* running (each borrows the layer), the clones held by send tasks live on
DropLayer ==
    /\ handler_tx = "held"
    /\ \A e \in Emitters : pc[e] = "idle"
    /\ handler_tx' = "dropped"
    /\ UNCHANGED << input, errs, buffer, now, dedup, lock, pc, vis, nEvents,
                    nFiltered, suppressed, nextId, senders, waited, queue,
                    enq, wpc, nextTick, inflight, delivered >>

\* no sender is left: handler_tx is dropped and so is every clone
Closed == handler_tx = "dropped" /\ senders = {}

\* select! arm `Some(visitor) = handler_rx.recv()` on a closed and empty
\* channel: recv() returns None, the pattern does not match, the arm is
\* disabled and this select! waits for the tick arm alone
WorkerRecvNone ==
    /\ WorkerReady
    /\ Closed /\ queue = <<>>
    /\ wpc' = "tick_only"
    /\ UNCHANGED << input, handler_tx, errs, buffer, now, dedup, lock, pc,
                    vis, nEvents, nFiltered, suppressed, nextId, senders,
                    waited, queue, enq, nextTick, inflight, delivered >>

\* select! arm `_ = interval.tick()`: the timer is due (missed ticks burst)
WorkerTick ==
    /\ WorkerReady \/ wpc = "tick_only"
    /\ now >= nextTick
    /\ nextTick' = nextTick + DEDUP_TIME
    /\ wpc' = "lock"
    /\ UNCHANGED << input, handler_tx, errs, buffer, now, dedup, lock, pc, vis, nEvents, nFiltered,
                    suppressed, nextId, senders, waited, queue, enq, inflight,
                    delivered >>

\* the tick arm: dedup.lock()
WorkerLock ==
    /\ wpc = "lock"
    /\ lock = None
    /\ lock' = Worker
    /\ wpc' = "purge"
    /\ UNCHANGED << input, handler_tx, errs, buffer, now, dedup, pc, vis, nEvents, nFiltered,
                    suppressed, nextId, senders, waited, queue, enq, nextTick,
                    inflight, delivered >>

\* the tick arm: purge_expired_entries and the release of the guard
WorkerPurge ==
    /\ wpc = "purge"
    /\ lock = Worker
    /\ dedup' = PurgeExpiredEntries(dedup, now)
    /\ lock' = None
    /\ wpc' = "select"
    /\ UNCHANGED << input, handler_tx, errs, buffer, now, pc, vis, nEvents, nFiltered, suppressed,
                    nextId, senders, waited, queue, enq, nextTick, inflight,
                    delivered >>

Next ==
    \/ Tick
    \/ \E e \in Emitters : \E ev \in Events : OnEvent(e, ev)
    \/ \E e \in Emitters : OnEventLock(e)
    \/ \E e \in Emitters : OnEventAdmit(e)
    \/ \E r \in senders : SendTask(r)
    \/ WorkerRecv
    \/ \E r \in inflight : \E res \in HandlerResults : HandlerReturn(r, res)
    \/ WorkerTick
    \/ WorkerLock
    \/ WorkerPurge

Spec == Init /\ [][Next]_vars

\* on_event and the purge alone, for events that carry a dedup_key field:
\* the send tasks of the admitted records stay pending
KeyNext ==
    \/ Tick
    \/ \E e \in Emitters : \E ev \in KeyEvents : OnEvent(e, ev)
    \/ \E e \in Emitters : OnEventLock(e)
    \/ \E e \in Emitters : OnEventAdmit(e)
    \/ WorkerTick
    \/ WorkerLock
    \/ WorkerPurge

KeySpec == Init /\ [][KeyNext]_vars

\* the whole program for events that differ in their `alert` field
FieldsNext ==
    \/ Tick
    \/ \E e \in Emitters : \E ev \in FieldEvents :
          nEvents < FewEvents /\ OnEvent(e, ev)
    \/ \E e \in Emitters : OnEventLock(e)
    \/ \E e \in Emitters : OnEventAdmit(e)
    \/ \E r \in senders : SendTask(r)
    \/ WorkerRecv
    \/ \E r \in inflight : \E res \in HandlerResults : HandlerReturn(r, res)
    \/ WorkerTick
    \/ WorkerLock
    \/ WorkerPurge

FieldsSpec == Init /\ [][FieldsNext]_vars

\* the whole program with the drop of the layer
LiveNext ==
    \/ Tick
    \/ \E e \in Emitters : \E ev \in LiveEvents :
          nEvents < FewEvents /\ OnEvent(e, ev)
    \/ \E e \in Emitters : OnEventLock(e)
    \/ \E e \in Emitters : OnEventAdmit(e)
    \/ DropLayer
    \/ \E r \in senders : SendTask(r)
    \/ WorkerRecv
    \/ WorkerRecvNone
    \/ \E r \in inflight : \E res \in HandlerResults : HandlerReturn(r, res)
    \/ WorkerTick
    \/ WorkerLock
    \/ WorkerPurge

\* the scheduling the runtime gives: a lock that stays free is acquired, a
\* critical section ends, a spawned send task runs, a handle_alert call
\* returns, and select! (which polls its arms in random order) takes an arm
\* that stays ready.  Weak fairness is all that is assumed: the clock and
\* the number of events are bounded, so no step is enabled and disabled
\* again without end.
Fairness ==
    /\ \A e \in Emitters : WF_vars(OnEventLock(e)) /\ WF_vars(OnEventAdmit(e))
    /\ WF_vars(\E r \in senders : SendTask(r))
    /\ WF_vars(WorkerRecv)
    /\ WF_vars(\E r \in inflight : \E res \in HandlerResults : HandlerReturn(r, res))
    /\ WF_vars(WorkerTick)
    /\ WF_vars(WorkerLock)
    /\ WF_vars(WorkerPurge)

LiveSpec == Init /\ [][LiveNext]_vars /\ Fairness

(* ---------------------- event.record on its own ----------------------- *)
\* the fields an event is made of: names that repeat with different values,
\* two boolean `alert` values, and the three Visit methods of AlertVisitor
FieldPool ==
    { Field("alert", "bool", TRUE), Field("alert", "bool", FALSE),
      Field("message", "args", "a"), Field("message", "str", "b"),
      Field("dedup_key", "str", "k1"), Field("urgent", "bool", TRUE) }

\* the field lists of up to MaxFields fields
FieldLists == UNION {[1..n -> FieldPool] : n \in 0..MaxFields}

\* the lists that are fields in another order
PermutationsOf(fields) ==
    LET n == Len(fields)
        bijections == {f \in [1..n -> 1..n] :
                          \A a, b \in 1..n : f[a] = f[b] => a = b}
    IN  {[k \in 1..n |-> fields[f[k]]] : f \in bijections}

\* a field list and a permutation of it, each about to be visited by a new
\* visitor of its own; the layer is as AlertLayer::new leaves it
VisitInit ==
    /\ \E xs \in FieldLists : \E ys \in PermutationsOf(xs) :
          input = [fields |-> xs, permuted |-> ys, n |-> 0, m |-> 0,
                   visitor |-> NewVisitor(ERROR),
                   permuted_visitor |-> NewVisitor(ERROR)]
    /\ buffer = 1
    /\ now = 0
    /\ dedup = {}
    /\ lock = None
    /\ pc = [e \in Emitters |-> "idle"]
    /\ vis = [e \in Emitters |-> NoVisitor]
    /\ nEvents = 0
    /\ nFiltered = 0
    /\ suppressed = {}
    /\ nextId = 0
    /\ senders = {}
    /\ waited = {}
    /\ queue = <<>>
    /\ enq = <<>>
    /\ wpc = "select"
    /\ nextTick = 0
    /\ inflight = {}
    /\ delivered = <<>>
    /\ errs = {}
    /\ handler_tx = "held"

\* event.record(&mut visitor) visits the next field of the list
VisitField ==
    /\ input.n < Len(input.fields)
    /\ input' = [input EXCEPT
                    !.n = @ + 1,
                    !.visitor = RecordField(@, input.fields[input.n + 1])]
    /\ UNCHANGED << handler_tx, errs, buffer, now, dedup, lock, pc, vis,
                    nEvents, nFiltered, suppressed, nextId, senders, waited,
                    queue, enq, wpc, nextTick, inflight, delivered >>

\* event.record(&mut visitor) visits the next field of the permuted list
VisitPermutedField ==
    /\ input.m < Len(input.permuted)
    /\ input' = [input EXCEPT
                    !.m = @ + 1,
                    !.permuted_visitor =
                        RecordField(@, input.permuted[input.m + 1])]
    /\ UNCHANGED << handler_tx, errs, buffer, now, dedup, lock, pc, vis,
                    nEvents, nFiltered, suppressed, nextId, senders, waited,
                    queue, enq, wpc, nextTick, inflight, delivered >>

VisitNext == VisitField \/ VisitPermutedField

VisitSpec == VisitInit /\ [][VisitNext]_vars

\* both lists have been visited to their end
Visited == input.n = Len(input.fields) /\ input.m = Len(input.permuted)

(* ------------------------ history and helpers -------------------------- *)
Range(q) == {q[i] : i \in DOMAIN q}

\* the dedup identity (hash) of an admitted record
KeyOf(r) == DedupKey(r.vis)

\* every record admitted so far: each is with its send task, in the channel,
\* or has been handed to the handler
Admitted == senders \cup Range(queue) \cup {d.rec : d \in Range(delivered)}

\* the ids handed to the handler, in the order of the calls
DeliveredIds == [i \in DOMAIN delivered |-> delivered[i].rec.id]

\* whether on_event of emitter e, now at its dedup match, admits its alert
AdmittedStep(e) == nextId' = nextId + 1 /\ \E r \in senders' \ senders :
                       r.id = nextId' /\ r.vis = vis[e] /\ r.at = now

(* ------------------------------- C1 ------------------------------------ *)
\* C1 (as stated): of the alerts of one dedup identity that arrive within
\* the TTL window opened by an admitted one (arrival <= admission + TTL),
\* only that first one is handed to handle_alert: no two delivered records
\* of one identity have arrival times within TTL of each other.
C1_OnlyFirstInWindowDelivered ==
    \A i, j \in DOMAIN delivered :
        ( /\ i # j
          /\ KeyOf(delivered[i].rec) = KeyOf(delivered[j].rec)
          /\ delivered[i].rec.at <= delivered[j].rec.at )
        => delivered[j].rec.at > delivered[i].rec.at + TTL

(* ------------------------------- C2 ------------------------------------ *)
\* C2 (as stated): in every time interval of length TTL, handle_alert is
\* started at most once for one dedup identity: two calls for the same
\* identity start at least TTL apart.
C2_AtMostOneDeliveryPerWindow ==
    \A i, j \in DOMAIN delivered :
        (i < j /\ KeyOf(delivered[i].rec) = KeyOf(delivered[j].rec))
        => delivered[j].t - delivered[i].t >= TTL

\* C2 (amended): in every time interval shorter than TTL at most one alert
\* of a dedup identity is admitted: two admitted records of one identity
\* were admitted at least TTL apart (their handle_alert calls may start
\* closer together, as a record waits in the channel for any time).
C2_AtMostOneAdmissionPerWindow ==
    \A r1, r2 \in Admitted :
        (r1.id < r2.id /\ KeyOf(r1) = KeyOf(r2)) => r2.at >= r1.at + TTL

\* two calls for one identity started less than TTL apart
C2_Witness ==
    \E i, j \in DOMAIN delivered :
        /\ i < j
        /\ KeyOf(delivered[i].rec) = KeyOf(delivered[j].rec)
        /\ delivered[j].t - delivered[i].t < TTL
        /\ delivered[j].rec.at >= delivered[i].rec.at + TTL

(* ------------------------------- C3 ------------------------------------ *)
\* the time of the last handle_alert call for a key, and of its last admission
DeliveryTimes(key) == {d.t : d \in {x \in Range(delivered) : KeyOf(x.rec) = key}}
AdmissionTimes(key) == {r.at : r \in {x \in Admitted : KeyOf(x) = key}}

\* C3 (as stated): an alert of an identity delivered before, arriving after
\* TTL has elapsed since the last handle_alert call for that identity, is
\* admitted again.
C3_ReadmittedAfterTTLSinceDelivery ==
    [][ \A e \in Emitters :
          ( /\ OnEventAdmit(e)
            /\ DeliveryTimes(DedupKey(vis[e])) # {}
            /\ \A t \in DeliveryTimes(DedupKey(vis[e])) : now > t + TTL )
          => AdmittedStep(e) ]_vars

\* C3 (amended): an alert of an identity admitted before, arriving after TTL
\* has elapsed since the last admission of that identity, is admitted again
\* (its expiry becomes now + TTL and its record is handed to a send task,
\* where it stays until the worker takes it); a suppressed repeat leaves
\* the cache as it is, so it does not extend the window.
C3_ReadmittedAfterTTLSinceAdmission ==
    [][ \A e \in Emitters : OnEventAdmit(e) =>
          LET key == DedupKey(vis[e]) IN
          /\ ( /\ AdmissionTimes(key) # {}
               /\ \A t \in AdmissionTimes(key) : now > t + TTL )
             => /\ AdmittedStep(e)
                /\ EntryOf(dedup', key) = {<<key, now + TTL>>}
          /\ ~AdmittedStep(e) => dedup' = dedup /\ <<key, now>> \in suppressed'
          /\ Admitted \subseteq Admitted' ]_vars

\* an identity was delivered, a repeat of it was suppressed, and it was
\* admitted and delivered again later
C3_Witness ==
    \E i, j \in DOMAIN delivered : \E s \in suppressed :
        /\ i < j
        /\ KeyOf(delivered[i].rec) = s[1]
        /\ KeyOf(delivered[j].rec) = s[1]
        /\ delivered[i].rec.at <= s[2]
        /\ s[2] <= delivered[i].rec.at + TTL
        /\ delivered[j].rec.at > delivered[i].rec.at + TTL

(* ------------------------------- C4 ------------------------------------ *)
\* C4: the dedup match of on_event is the reference admit(key, now, ttl):
\* no entry -> insert now + TTL, admit; entry with now > expires_at ->
\* overwrite with now + TTL, admit; entry with now <= expires_at -> suppress
\* and leave the cache unchanged.  The entries of other keys are unchanged
\* and the cache holds at most one entry per key.
C4_AdmitMatchesReference ==
    [][ \A e \in Emitters : OnEventAdmit(e) =>
          LET key == DedupKey(vis[e])
              old == {p \in dedup : p[1] = key}
          IN
          /\ old = {} =>
                 dedup' = dedup \cup {<<key, now + TTL>>} /\ AdmittedStep(e)
          /\ (\E p \in old : now > p[2]) =>
                 dedup' = (dedup \ old) \cup {<<key, now + TTL>>} /\ AdmittedStep(e)
          /\ (old # {} /\ \A p \in old : now <= p[2]) =>
                 dedup' = dedup /\ ~AdmittedStep(e) /\ UNCHANGED << senders, nextId >>
          /\ {p \in dedup' : p[1] # key} = {p \in dedup : p[1] # key}
          /\ \A p, q \in dedup' : p[1] = q[1] => p = q ]_vars

\* an alert was suppressed at the very instant its entry expires
\* (now = expires_at), and the entry is still there
C4_Witness ==
    \E s \in suppressed : <<s[1], s[2]>> \in dedup /\ now = s[2]

C6_BelowMaxLevelNeverDelivered ==
    /\ [](\A r \in Admitted \cup inflight : r.vis.level \in {WARN, ERROR})
    /\ [][ \A e \in Emitters : \A ev \in Events : OnEvent(e, ev) =>
             /\ ev.level \in {INFO, DEBUG, TRACE} =>
                    /\ nFiltered' = nFiltered + 1
                    /\ UNCHANGED << dedup, lock, pc, vis, suppressed, nextId,
                                    senders, waited, queue, enq, inflight,
                                    delivered >>
             /\ ( /\ ev.level \in {WARN, ERROR}
                  /\ \E i \in DOMAIN ev.fields : ev.fields[i].name = "alert" ) =>
                    /\ pc'[e] = "lock"
                    /\ vis'[e].level = ev.level
                    /\ UNCHANGED nFiltered ]_vars

\* an on_event call was ended by the level filter and left no trace, while
\* WARN and ERROR alerts were delivered
C6_Witness ==
    /\ nFiltered > 0
    /\ nEvents = nFiltered + nextId
    /\ \E d \in Range(delivered) : d.rec.vis.level = WARN
    /\ \E d \in Range(delivered) : d.rec.vis.level = ERROR

(* ------------------------------- C7 ------------------------------------ *)
\* C7: at every instant at most one handle_alert call is in flight.
C7_AtMostOneInFlight == Cardinality(inflight) <= 1

\* a call is in flight while a record waits in the channel and another
\* with its send task
C7_Witness ==
    /\ inflight # {}
    /\ queue # <<>>
    /\ senders # {}

C9_FullQueueDrops ==
    \A d \in Range(delivered) : d.rec.id \notin waited

\* C9 (as stated), the other half: no record is kept waiting for room
C9_NoneKeptWaiting ==
    \A r \in senders : r.id \notin waited

(* ------------------------------- C10 ----------------------------------- *)
\* C10: on_event never waits for room in the channel nor for a delivery:
\* in every state, also with the channel full and a handle_alert call that
\* does not return, each of its steps can be taken, or the cache lock it
\* needs is held by a party whose critical section can complete at once;
\* and the lock is held only inside the dedup match and the purge, never by
\* a party that is in a delivery call or suspended.
C10_EmitterNeverBlocks ==
    /\ \A e \in Emitters :
          /\ pc[e] = "idle" /\ nEvents < MaxEvents =>
                 \A ev \in Events : ENABLED OnEvent(e, ev)
          /\ pc[e] = "lock" =>
                 \/ ENABLED OnEventLock(e)
                 \/ lock = Worker /\ ENABLED WorkerPurge
                 \/ \E o \in Emitters : lock = Emitter(o) /\ ENABLED OnEventAdmit(o)
          /\ pc[e] = "admit" => ENABLED OnEventAdmit(e)
          /\ lock = Emitter(e) <=> pc[e] = "admit"
    /\ lock = Worker <=> wpc = "purge"
    /\ lock = Worker => inflight = {}

\* an on_event call is at its dedup match while the channel is full and a
\* handle_alert call has not returned
C10_Witness ==
    /\ Len(queue) = buffer
    /\ inflight # {}
    /\ \E e \in Emitters : pc[e] = "admit" /\ Admits(dedup, DedupKey(vis[e]), now)

(* ------------------------------- C11 ----------------------------------- *)
\* C11: every record the worker takes from the channel gets exactly one
\* handle_alert call, and only admitted records get one: the delivered ids
\* are distinct, each was admitted by on_event and entered the channel.  A
\* record whose call returned Err is discarded: it is neither in the channel
\* nor with a send task again.  Whatever the outcome, the return leaves the
\* channel as it was and puts the worker back at its select!, where the
\* record behind can be taken.
C11_OneCallPerRecordErrDiscarded ==
    /\ [](/\ \A i, j \in DOMAIN delivered :
                delivered[i].rec.id = delivered[j].rec.id => i = j
          /\ \A d \in Range(delivered) :
                /\ d.rec.id \in 1..nextId
                /\ d.rec.id \in Range(enq)
                /\ IsAlert(d.rec.vis) /\ ~LevelFiltered(d.rec.vis.level)
          /\ \A r \in inflight : r \in {d.rec : d \in Range(delivered)}
          /\ \A i \in errs :
                /\ i \in Range(DeliveredIds)
                /\ \A r \in senders \cup Range(queue) \cup inflight : r.id # i)
    /\ [][\A r \in inflight : \A res \in HandlerResults :
             HandlerReturn(r, res) =>
                 /\ queue' = queue /\ senders' = senders
                 /\ delivered' = delivered
                 /\ wpc' = "select"
                 /\ (queue # <<>> => ENABLED WorkerRecv)']_vars

\* a call returned Err, and the record behind it has been handed to the
\* handler after that
C11_Witness ==
    \E i, j \in DOMAIN delivered :
        /\ i < j
        /\ delivered[i].rec.id \in errs
        /\ delivered[j].rec.id \notin errs
        /\ inflight = {}

(* ------------------------------- C12 ----------------------------------- *)
\* the text that identifies an alert for deduplication: its `dedup_key`
\* field if it has one, its message otherwise
Identity(v) ==
    IF "dedup_key" \in DOMAIN v.string_fields
    THEN v.string_fields["dedup_key"]
    ELSE Message(v)

C13_FirstOccurrenceEventuallyDelivered ==
    /\ \A e \in Emitters : (pc[e] = "lock") ~> (pc[e] = "idle")
    /\ [][\A e \in Emitters :
             (OnEventAdmit(e) /\ EntryOf(dedup, DedupKey(vis[e])) = {})
             => AdmittedStep(e)]_vars
    /\ \A i \in 1..FewEvents :
          (\E r \in senders : r.id = i) ~> (i \in Range(DeliveredIds))
    /\ [](\A d \in Range(delivered) :
             /\ d.level = d.rec.vis.level
             /\ d.msg = IF "message" \in DOMAIN d.rec.vis.string_fields
                        THEN d.rec.vis.string_fields["message"]
                        ELSE "alert missing message")

\* both an alert with a message and one without have been handed to the
\* handler, the latter under the fallback text
C13_Witness ==
    /\ \E d \in Range(delivered) : d.msg = "a"
    /\ \E d \in Range(delivered) :
          /\ "message" \notin DOMAIN d.rec.vis.string_fields
          /\ d.msg = "alert missing message"

(* ------------------------------- C14 ----------------------------------- *)
\* C14: an event that passes the level filter goes on to the dedup match
\* exactly when it has a field named `alert`, of whatever type and value
\* (the is_alert flag is set by such a field only).  For an event without
\* one the call ends there: the cache is as it was, and no record without
\* an `alert` field is ever admitted or handed to the handler.
C14_AlertIffAlertFieldPresent ==
    /\ [][\A e \in Emitters : \A ev \in FieldEvents :
             (OnEvent(e, ev) /\ ~LevelFiltered(ev.level)) =>
                 /\ dedup' = dedup
                 /\ IF \E i \in DOMAIN ev.fields : ev.fields[i].name = "alert"
                    THEN pc'[e] = "lock"
                    ELSE pc'[e] = "idle" /\ vis'[e] = NoVisitor]_vars
    /\ [](\A r \in Admitted \cup {d.rec : d \in Range(delivered)} :
             "alert" \in DOMAIN r.vis.string_fields)

\* alerts whose `alert` field is false, a string and an integer have been
\* admitted, the first of them handed to the handler
C14_Witness ==
    /\ \E d \in Range(delivered) :
          d.rec.vis.string_fields["alert"] = "false" /\ ~d.rec.vis.is_alert
    /\ \E r \in Admitted : r.vis.string_fields["alert"] \in {"yes", "1"}

(* ------------------------------- C15 ----------------------------------- *)
\* C15 (as stated): once the AlertLayer and every clone of its sender are
\* dropped and the channel is drained, the worker loop eventually exits.
C15_WorkerExitsOnceClosed ==
    (Closed /\ queue = <<>> /\ inflight = {}) ~> (wpc = "exited")

(* ------------------------------- C16 ----------------------------------- *)
\* C16 (as stated): the records between their admission and the start of
\* their delivery never exceed the capacity of the channel: those in the
\* channel and those whose send has found it full are no more than buffer,
\* whatever was admitted beyond that having been dropped.
C16_HeldRecordsWithinCapacity ==
    Len(queue) + Cardinality({r \in senders : r.id \in waited}) <= buffer

C18_AnyPermutationSameRecord ==
    Visited =>
        /\ input.visitor.string_fields = input.permuted_visitor.string_fields
        /\ input.visitor.is_alert = input.permuted_visitor.is_alert
        /\ Message(input.visitor) = Message(input.permuted_visitor)
        /\ DedupKey(input.visitor) = DedupKey(input.permuted_visitor)

\* C18 (amended): the record holds, for every name in the list, the value
\* of the last field of that name, and its is_alert flag is the value of
\* the last boolean field named `alert` (false without one).  Hence, for a
\* list in which no name repeats, visiting any permutation yields the same
\* record (fields mapping, is_alert flag, message and dedup identity); with
\* a repeated name the record depends on which of the repeats comes last.
C18_LastValueRetainedOrderFreeWithoutRepeats ==
    LET fields == input.fields
        last(name) == CHOOSE i \in DOMAIN fields :
                          /\ fields[i].name = name
                          /\ \A j \in DOMAIN fields : fields[j].name = name => j <= i
        text(f) == IF f.kind = "bool" THEN BoolToString(f.val) ELSE f.val
        names == {fields[i].name : i \in DOMAIN fields}
        norepeat == \A i, j \in DOMAIN fields : fields[i].name = fields[j].name => i = j
    IN  Visited =>
          /\ DOMAIN input.visitor.string_fields = names
          /\ \A name \in names :
                input.visitor.string_fields[name] = text(fields[last(name)])
          /\ input.visitor.is_alert =
                ("alert" \in names /\ fields[last("alert")].val = TRUE)
          /\ norepeat =>
                /\ input.visitor = input.permuted_visitor
                /\ Message(input.visitor) = Message(input.permuted_visitor)
                /\ DedupKey(input.visitor) = DedupKey(input.permuted_visitor)

\* a list of three fields of different names (alert, message and dedup_key
\* among them) and another order of it have both been visited
C18_Witness ==
    /\ Visited
    /\ Len(input.fields) = 3
    /\ input.fields # input.permuted
    /\ {input.fields[i].name : i \in 1..3} = {"alert", "message", "dedup_key"}

(* ------------------------------- C19 ----------------------------------- *)
\* C19: the check of the cache entry and its insertion are one step under
\* the cache lock: at most one party (an on_event call at its dedup match,
\* or the worker's purge) is inside the lock at a time.  When several
\* on_event calls race with alerts of one identity that has no live entry,
\* the one that takes the lock first is admitted and handed off, and from
\* then on each of the others finds a live entry, which a purge at that
\* instant does not remove; a call that finds a live entry is suppressed
\* and leaves the cache as it is.  So no two records of one identity are
\* admitted less than TTL apart, whatever the interleaving.
C19_RacingEmittersOneAdmitted ==
    /\ [](/\ Cardinality({e \in Emitters : pc[e] = "admit"})
               + (IF wpc = "purge" THEN 1 ELSE 0) <= 1
          /\ \A e \in Emitters : pc[e] = "admit" <=> lock = Emitter(e)
          /\ wpc = "purge" <=> lock = Worker
          /\ \A r1, r2 \in Admitted :
                (r1.id # r2.id /\ KeyOf(r1) = KeyOf(r2) /\ r1.at <= r2.at)
                => r2.at - r1.at >= TTL)
    /\ [][\A e \in Emitters : OnEventAdmit(e) =>
             LET key == DedupKey(vis[e])
             IN  IF \A p \in EntryOf(dedup, key) : now > p[2]
                 THEN /\ AdmittedStep(e)
                      /\ \A o \in Emitters \ {e} :
                            (pc[o] = "lock" /\ DedupKey(vis[o]) = key) =>
                               /\ ~Admits(dedup', key, now)
                               /\ ~Admits(PurgeExpiredEntries(dedup', now), key, now)
                 ELSE /\ ~AdmittedStep(e)
                      /\ dedup' = dedup /\ senders' = senders]_vars

\* two on_event calls raced with alerts of one identity at one instant:
\* one was admitted, the other suppressed, and the worker's purge ran at
\* that instant as well and left the entry in place
C19_Witness ==
    \E r \in Admitted :
        /\ <<KeyOf(r), r.at>> \in suppressed
        /\ r.at = now /\ nEvents = 2 /\ nextId = 1
        /\ now > 0 /\ nextTick > now /\ wpc = "select"
        /\ \E p \in dedup : p[1] = KeyOf(r)

(* ------------------------------- C20 ----------------------------------- *)
\* C20 (as stated): the purge is transparent to admission: for every
\* identity and every time t' from the time of the purge on, the time of
\* the purge itself included, the dedup match at t' admits after the purge
\* exactly when it would have admitted without it.
C20_PurgeTransparentToAdmission ==
    [][WorkerPurge =>
          \A p \in dedup : \A t \in now..MaxTime :
              Admits(dedup', p[1], t) = Admits(dedup, p[1], t)]_vars


====
